---------------------------- MODULE Spec2Model ----------------------------
(***************************************************************************)
(* Model of rastap's polygon descriptor builder (find_polygons) and        *)
(* descriptor matcher (find_fit), src/src/polygon.rs, with the pixel to    *)
(* angle projection of src/src/image.rs, the copy of find_polygons in      *)
(* src/src/main.rs and the reader of detected stars, src/src/sextractor.rs.*)
(*                                                                         *)
(* Numbers.  Coordinates are integers.  A distance or edge length is a     *)
(* fixed-point number counted in units of 1/SqrtRes: Sqrt rounds to the    *)
(* nearest such unit, as f64::sqrt rounds to the nearest double.  A value  *)
(* produced by a division (a signature entry, a centroid, an edge ratio)   *)
(* is a fraction [n, d] compared by cross multiplication; 0/0 is NaN, for  *)
(* which every ordered comparison is false, as in IEEE 754.                *)
(***************************************************************************)
EXTENDS Integers, Sequences, FiniteSets, TLC

VARIABLES
    star_list,       \* find_polygons: the argument, a sequence of stars
    pc,              \* position in the running function
    id_a,            \* find_polygons: index of the anchor (0-based)
    id_b,            \* find_polygons: index of the inner loop (0-based)
    star_vec,        \* find_polygons: window of star indices
    dist_vec,        \* find_polygons: window of distances
    center,          \* find_polygons: centroid of the current star_vec
    polygons,        \* find_polygons: descriptors stored so far
    result,          \* find_polygons: "pending", "None" or "Some"
    image_polygons,  \* find_fit: first argument
    star_polygons,   \* find_fit: second argument
    fit_i,           \* find_fit: position in image_polygons (1-based)
    fit_j,           \* find_fit: position in star_polygons (1-based)
    n,               \* find_fit: number of similar polygons found
    reported,        \* find_fit: the pairs printed, in order
    image_stars,     \* image_star_to_polygon: the detected stars, in pixels
    scale_app,       \* image_star_to_polygon: scale argument
    probe,           \* star_distance_rad probes: record of inputs and outputs
    main_result,     \* main.rs: what its find_polygons returned to main
    rows             \* read_image_stars_from_file: the records not yet read

vars == <<star_list, pc, id_a, id_b, star_vec, dist_vec, center, polygons,
          result, image_polygons, star_polygons, fit_i, fit_j, n, reported,
          image_stars, scale_app, probe, main_result, rows>>

polyVars == <<star_list, id_a, id_b, star_vec, dist_vec, center, polygons, result>>
fitVars == <<image_polygons, star_polygons, fit_i, fit_j, n, reported>>
otherVars == <<image_stars, scale_app, probe, main_result, rows>>

---------------------------------------------------------------------------
(* Bounds of the model *)

MaxStars == 5        \* longest star list given to find_polygons
SqrtRes == 100       \* fixed-point units per 1.0 in a distance
MaxPolys == 2        \* longest descriptor list given to find_fit directly
MaxPixels == 4       \* longest list of detected stars given to the pipeline
MaxOffset == 3       \* largest translation offset tried on a pair of stars
MaxCatalog == 4      \* longest star list given to both copies of find_polygons
MaxRows == 3         \* most records in a file of detected stars
MaxMagnitude == 3    \* largest magnitude in a record

(* Program constants *)

POLYGON_EDGES == 4
F64_MAX == 2147483647    \* f64::MAX: larger than every distance

---------------------------------------------------------------------------
(* Floating point values that come out of a division *)

Frac(num, den) == [n |-> num, d |-> den]
NaN == Frac(0, 0)
IsNaN(x) == x.n = 0 /\ x.d = 0

\* a < b on f64: false when either side is NaN
FLt(a, b) == ~IsNaN(a) /\ ~IsNaN(b) /\ a.n * b.d < b.n * a.d
\* a > b on f64
FGt(a, b) == FLt(b, a)
\* a == b on f64: false when either side is NaN
FEq(a, b) == ~IsNaN(a) /\ ~IsNaN(b) /\ a.n * b.d = b.n * a.d
\* a / b on non-negative f64; 0/0 and NaN operands give NaN
FDiv(a, b) == Frac(a.n * b.d, a.d * b.n)

Abs(x) == IF x < 0 THEN -x ELSE x

\* the square root of x rounded to the nearest 1/SqrtRes
RoundedRoot(x) ==
    CHOOSE r \in 0..(SqrtRes * (x + 1)) :
        /\ (r = 0 \/ (2 * r - 1) * (2 * r - 1) <= 4 * x * SqrtRes * SqrtRes)
        /\ 4 * x * SqrtRes * SqrtRes < (2 * r + 1) * (2 * r + 1)

\* the largest argument the table of square roots is built for
MaxDiff == 48

SqrtTable == [x \in 0..MaxDiff |-> RoundedRoot(x)]

\* f64::sqrt of a non-negative integer
Sqrt(x) == SqrtTable[x]

---------------------------------------------------------------------------
(* polygon.rs *)

Star(x, y) == [ra_rad |-> x, dec_rad |-> y]

RECURSIVE SidesFrom(_, _)
SidesFrom(polygon, i) ==
    IF i >= polygon THEN 0 ELSE (polygon - i) + SidesFrom(polygon, i + 1)

polygon_connections(polygon) == SidesFrom(polygon, 1)

\* mutant: the right ascensions are added, not subtracted
star_distance_rad_Sum(star_a, star_b) ==
    Sqrt(Abs(star_b.ra_rad + star_a.ra_rad))
        + Sqrt(Abs(star_b.dec_rad - star_a.dec_rad))

star_distance_rad(star_a, star_b) ==
    Sqrt(Abs(star_b.ra_rad - star_a.ra_rad))
        + Sqrt(Abs(star_b.dec_rad - star_a.dec_rad))

\* Vec::insert(i, x) followed by Vec::pop(); i is 0-based
InsertPop(vec, i, x) ==
    [p \in 1..Len(vec) |->
        IF p < i + 1 THEN vec[p] ELSE IF p = i + 1 THEN x ELSE vec[p - 1]]

\* mutant: `<=` for `<` in the comparison of the scan
Closer_OrEqual(distance, slot) == distance <= slot

\* does the while loop of the scan insert at slot i (0-based)?
Closer(distance, slot) == distance < slot

\* the slots at which `distance < dist_vec[i]` holds
CloserSlots(dvec, distance) ==
    {i \in 0..(Len(dvec) - 1) : Closer(distance, dvec[i + 1])}

Min(S) == CHOOSE x \in S : \A y \in S : x <= y

\* mutant: the scan does not skip the anchor itself
ScanOne_NoSkip(list, a, b, w) ==
    LET distance == star_distance_rad(list[a + 1], list[b + 1])
        slots == CloserSlots(w.dist, distance)
    IN  IF slots = {} THEN w
        ELSE [star |-> InsertPop(w.star, Min(slots), b),
              dist |-> InsertPop(w.dist, Min(slots), distance)]

\* one pass of the inner loop body for star id_b: the windows afterwards
ScanOne(list, a, b, w) ==
    IF a = b THEN w
    ELSE LET distance == star_distance_rad(list[a + 1], list[b + 1])
             slots == CloserSlots(w.dist, distance)
         IN  IF slots = {} THEN w
             ELSE [star |-> InsertPop(w.star, Min(slots), b),
                   dist |-> InsertPop(w.dist, Min(slots), distance)]

\* the windows as allocated for each anchor
NewWindow ==
    [star |-> [p \in 1..POLYGON_EDGES |-> 0],
     dist |-> [p \in 1..POLYGON_EDGES |-> F64_MAX]]

\* "Insert current star at the begining of the arrays"
WithAnchor(a, w) ==
    [star |-> InsertPop(w.star, 0, a), dist |-> InsertPop(w.dist, 0, 0)]

RECURSIVE SumRa(_, _, _)
SumRa(list, svec, p) ==
    IF p > Len(svec) THEN 0
    ELSE list[svec[p] + 1].ra_rad + SumRa(list, svec, p + 1)

RECURSIVE SumDec(_, _, _)
SumDec(list, svec, p) ==
    IF p > Len(svec) THEN 0
    ELSE list[svec[p] + 1].dec_rad + SumDec(list, svec, p + 1)

\* centroid of the polygon: the coordinate sums divided by POLYGON_EDGES
Center(list, svec) ==
    [ra |-> Frac(SumRa(list, svec, 1), POLYGON_EDGES),
     dec |-> Frac(SumDec(list, svec, 1), POLYGON_EDGES)]

\* mutant: the right ascension of the centre alone decides
PolygonExists_RaOnly(polys, c) ==
    \E h \in 1..Len(polys) : FEq(polys[h].center_ra_rad, c.ra)

PolygonExists(polys, c) ==
    \E h \in 1..Len(polys) :
        /\ FEq(polys[h].center_ra_rad, c.ra)
        /\ FEq(polys[h].center_dec_rad, c.dec)

\* the pairs (i, n) with i < n in the order of the two nested loops
RECURSIVE PairsFrom(_, _, _)
PairsFrom(len, i, k) ==
    IF i >= len - 1 THEN <<>>
    ELSE IF k >= len THEN PairsFrom(len, i + 1, i + 2)
    ELSE <<<<i, k>>>> \o PairsFrom(len, i, k + 1)

\* length_vec after the nested loops: the pairwise distances
Lengths(list, svec) ==
    LET pairs == PairsFrom(Len(svec), 0, 1)
        conn_number == polygon_connections(POLYGON_EDGES)
    IN  [k \in 1..conn_number |->
            IF k <= Len(pairs)
            THEN star_distance_rad(list[svec[pairs[k][1] + 1] + 1],
                                   list[svec[pairs[k][2] + 1] + 1])
            ELSE 0]

\* sort_by(partial_cmp): ascending insertion of x into a sorted sequence
RECURSIVE InsertSorted(_, _)
InsertSorted(s, x) ==
    IF s = <<>> THEN <<x>>
    ELSE IF x < Head(s) THEN <<x>> \o s
    ELSE <<Head(s)>> \o InsertSorted(Tail(s), x)

RECURSIVE SortAsc(_)
SortAsc(s) ==
    IF s = <<>> THEN <<>>
    ELSE InsertSorted(SortAsc(SubSeq(s, 1, Len(s) - 1)), s[Len(s)])

\* "Normalize the length of the connections by the longest length"
Normalize(lvec) ==
    LET longest_length == lvec[Len(lvec)]
    IN  [i \in 1..Len(lvec) |-> FDiv(Frac(lvec[i], 1), Frac(longest_length, 1))]

MakePolygon(list, a, svec, c) ==
    [star_index |-> a,
     star_list |-> svec,
     length_list |-> Normalize(SortAsc(Lengths(list, svec))),
     center_ra_rad |-> c.ra,
     center_dec_rad |-> c.dec]

---------------------------------------------------------------------------
(* find_polygons, one step at a time *)

\* mutant: `<=` for `<` in the length check
NotEnoughStars_OrEqual(list) == Len(list) <= POLYGON_EDGES

\* `star_list.len() < POLYGON_EDGES`
NotEnoughStars(list) == Len(list) < POLYGON_EDGES

\* "Not enough stars for the polygon"
ReturnNone ==
    /\ pc = "entry"
    /\ NotEnoughStars(star_list)
    /\ result' = "None"
    /\ pc' = "done"
    /\ UNCHANGED <<star_list, id_a, id_b, star_vec, dist_vec, center, polygons>>
    /\ UNCHANGED <<fitVars, otherVars>>

\* enter the outer loop with the first star
Begin ==
    /\ pc = "entry"
    /\ ~NotEnoughStars(star_list)
    /\ id_a' = 0
    /\ id_b' = 0
    /\ star_vec' = NewWindow.star
    /\ dist_vec' = NewWindow.dist
    /\ pc' = "scan"
    /\ UNCHANGED <<star_list, center, polygons, result>>
    /\ UNCHANGED <<fitVars, otherVars>>

\* one iteration of the inner loop
ScanStep ==
    /\ pc = "scan"
    /\ id_b < Len(star_list)
    /\ LET w == ScanOne(star_list, id_a, id_b, [star |-> star_vec, dist |-> dist_vec])
       IN  /\ star_vec' = w.star
           /\ dist_vec' = w.dist
    /\ id_b' = id_b + 1
    /\ UNCHANGED <<star_list, pc, id_a, center, polygons, result>>
    /\ UNCHANGED <<fitVars, otherVars>>

\* after the inner loop: insert the anchor, compute the centre
InsertAnchor ==
    /\ pc = "scan"
    /\ id_b = Len(star_list)
    /\ LET w == WithAnchor(id_a, [star |-> star_vec, dist |-> dist_vec])
       IN  /\ star_vec' = w.star
           /\ dist_vec' = w.dist
           /\ center' = Center(star_list, w.star)
    /\ pc' = "exists"
    /\ UNCHANGED <<star_list, id_a, id_b, polygons, result>>
    /\ UNCHANGED <<fitVars, otherVars>>

\* the end of one iteration of the outer loop
NextAnchor ==
    IF id_a + 1 < Len(star_list)
    THEN /\ id_a' = id_a + 1
         /\ id_b' = 0
         /\ star_vec' = NewWindow.star
         /\ dist_vec' = NewWindow.dist
         /\ pc' = "scan"
         /\ result' = result
    ELSE /\ pc' = "done"
         /\ result' = "Some"
         /\ UNCHANGED <<id_a, id_b, star_vec, dist_vec>>

\* "Don't store if polygon already exists"
SkipExisting ==
    /\ pc = "exists"
    /\ PolygonExists(polygons, center)
    /\ NextAnchor
    /\ UNCHANGED <<star_list, center, polygons>>
    /\ UNCHANGED <<fitVars, otherVars>>

\* "Store polygon data"
StorePolygon ==
    /\ pc = "exists"
    /\ ~PolygonExists(polygons, center)
    /\ polygons' = Append(polygons, MakePolygon(star_list, id_a, star_vec, center))
    /\ NextAnchor
    /\ UNCHANGED <<star_list, center>>
    /\ UNCHANGED <<fitVars, otherVars>>

---------------------------------------------------------------------------
(* find_polygons as a function of the star list *)

\* the inner loop over every star of the list
RECURSIVE ScanAll(_, _, _)
ScanAll(list, a, b) ==
    IF b = 0 THEN NewWindow
    ELSE LET w == ScanAll(list, a, b - 1)
         IN  ScanOne(list, a, b - 1, w)

\* the outer loop from anchor a on, with the descriptors stored so far
RECURSIVE PolygonsFrom(_, _, _)
PolygonsFrom(list, a, polys) ==
    IF a >= Len(list) THEN polys
    ELSE LET w == WithAnchor(a, ScanAll(list, a, Len(list)))
             c == Center(list, w.star)
         IN  IF PolygonExists(polys, c)
             THEN PolygonsFrom(list, a + 1, polys)
             ELSE PolygonsFrom(list, a + 1,
                               Append(polys, MakePolygon(list, a, w.star, c)))

find_polygons(list) ==
    IF NotEnoughStars(list)
    THEN [some |-> FALSE, polygons |-> <<>>]
    ELSE [some |-> TRUE, polygons |-> PolygonsFrom(list, 0, <<>>)]

---------------------------------------------------------------------------
(* image.rs *)

ImageStar(x, y) == [pixel_x |-> x, pixel_y |-> y]

\* mutant: the scale is applied to pixel_x only
image_star_to_polygon_XOnly(list, scale) ==
    [i \in 1..Len(list) |->
        Star(list[i].pixel_x * scale, list[i].pixel_y)]

\* Coordinates are counted in units of (1/3600).to_radians(), so that
\* scale_rad, the radians per pixel, is scale_app of these units.
image_star_to_polygon(list, scale) ==
    [i \in 1..Len(list) |->
        Star(list[i].pixel_x * scale, list[i].pixel_y * scale)]

---------------------------------------------------------------------------
(* find_fit *)

\* the literal 0.99
Tolerance == Frac(99, 100)

\* mutant: the ratio is always a / b
Difference_NoSwap(a, b) == FDiv(a, b)

\* `difference`: b / a if a > b, else a / b
Difference(a, b) == IF FGt(a, b) THEN FDiv(b, a) ELSE FDiv(a, b)

\* mutant: `<=` for `<` in the tolerance test
Exceeds_OrEqual(difference) ==
    FLt(difference, Tolerance) \/ FEq(difference, Tolerance)

\* `difference < 0.99`
Exceeds(difference) == FLt(difference, Tolerance)

\* the loop 'length from position i (0-based) on: the value of `similar`
RECURSIVE SimilarFrom(_, _, _)
SimilarFrom(image_pol, star_pol, i) ==
    IF i >= Len(star_pol.length_list) - 1 THEN TRUE
    ELSE IF Exceeds(Difference(image_pol.length_list[i + 1],
                               star_pol.length_list[i + 1]))
         THEN FALSE
         ELSE SimilarFrom(image_pol, star_pol, i + 1)

Similar(image_pol, star_pol) == SimilarFrom(image_pol, star_pol, 0)

\* mutant: the counter is set, not incremented
Counted_Set(count) == 1

\* `n += 1`
Counted(count) == count + 1

\* is there a pair of descriptors at the loop positions (i, j)?
HasPair(image, star, i, j) == i <= Len(image) /\ j <= Len(star)

\* the loop positions after the pair (i, j)
AfterPair(star, i, j) == IF j < Len(star) THEN <<i, j + 1>> ELSE <<i + 1, 1>>

\* the pair at the loop positions is similar: print it and count it
FitSimilar ==
    /\ pc = "fit"
    /\ HasPair(image_polygons, star_polygons, fit_i, fit_j)
    /\ Similar(image_polygons[fit_i], star_polygons[fit_j])
    /\ reported' = Append(reported, <<fit_i, fit_j>>)
    /\ n' = Counted(n)
    /\ fit_i' = AfterPair(star_polygons, fit_i, fit_j)[1]
    /\ fit_j' = AfterPair(star_polygons, fit_i, fit_j)[2]
    /\ UNCHANGED <<pc, image_polygons, star_polygons>>
    /\ UNCHANGED <<polyVars, otherVars>>

\* the pair at the loop positions exceeds the tolerance at some edge
FitDifferent ==
    /\ pc = "fit"
    /\ HasPair(image_polygons, star_polygons, fit_i, fit_j)
    /\ ~Similar(image_polygons[fit_i], star_polygons[fit_j])
    /\ fit_i' = AfterPair(star_polygons, fit_i, fit_j)[1]
    /\ fit_j' = AfterPair(star_polygons, fit_i, fit_j)[2]
    /\ UNCHANGED <<pc, image_polygons, star_polygons, n, reported>>
    /\ UNCHANGED <<polyVars, otherVars>>

\* both loops are over
FitReturn ==
    /\ pc = "fit"
    /\ ~HasPair(image_polygons, star_polygons, fit_i, fit_j)
    /\ pc' = "fit_done"
    /\ UNCHANGED <<image_polygons, star_polygons, fit_i, fit_j, n, reported>>
    /\ UNCHANGED <<polyVars, otherVars>>

\* find_fit as a function of its arguments, from the loop positions (i, j)
RECURSIVE FitFrom(_, _, _, _, _)
FitFrom(image, star, i, j, acc) ==
    IF ~HasPair(image, star, i, j) THEN acc
    ELSE LET next == AfterPair(star, i, j)
         IN  IF Similar(image[i], star[j])
             THEN FitFrom(image, star, next[1], next[2],
                          [n |-> Counted(acc.n),
                           reported |-> Append(acc.reported, <<i, j>>)])
             ELSE FitFrom(image, star, next[1], next[2], acc)

find_fit(image, star) == FitFrom(image, star, 1, 1, [n |-> 0, reported |-> <<>>])

---------------------------------------------------------------------------
(* Inputs *)

SeqsUpTo(S, len) == UNION {[1..k -> S] : k \in 0..len}

\* the points of the reference scenario
PointSet == {Star(0, 0), Star(1, 0), Star(0, 1), Star(1, 1), Star(10, 10)}

NoCenter == [ra |-> NaN, dec |-> NaN]

\* main.rs has not called its find_polygons
NotRun == [some |-> FALSE, polygons |-> <<>>]

Init ==
    /\ star_list \in SeqsUpTo(PointSet, MaxStars)
    /\ pc = "entry"
    /\ id_a = 0
    /\ id_b = 0
    /\ star_vec = <<>>
    /\ dist_vec = <<>>
    /\ center = NoCenter
    /\ polygons = <<>>
    /\ result = "pending"
    /\ image_polygons = <<>>
    /\ star_polygons = <<>>
    /\ fit_i = 1
    /\ fit_j = 1
    /\ n = 0
    /\ reported = <<>>
    /\ image_stars = <<>>
    /\ scale_app = 1
    /\ probe = <<>>
    /\ main_result = NotRun
    /\ rows = <<>>

Next ==
    \/ ReturnNone
    \/ Begin
    \/ ScanStep
    \/ InsertAnchor
    \/ SkipExisting
    \/ StorePolygon

Spec == Init /\ [][Next]_vars

---------------------------------------------------------------------------
(* find_fit on descriptor lists given directly *)

Sig(a, b, c, d, e, f) ==
    <<Frac(a, 100), Frac(b, 100), Frac(c, 100), Frac(d, 100), Frac(e, 100),
      Frac(f, 100)>>

Descriptor(sig) ==
    [star_index |-> 0,
     star_list |-> <<0, 1, 2, 3>>,
     length_list |-> sig,
     center_ra_rad |-> Frac(0, POLYGON_EDGES),
     center_dec_rad |-> Frac(0, POLYGON_EDGES)]

\* find_fit is public and takes any list of Polygon: besides descriptors as
\* find_polygons builds them (sorted, ending at 1.0; with zero entries for
\* coincident stars) the family holds one whose last entry was not
\* normalized.
DescriptorFamily ==
    { Descriptor(Sig(50, 50, 50, 50, 100, 100)),
      Descriptor(Sig(50, 50, 50, 50, 99, 100)),
      Descriptor(Sig(50, 50, 50, 50, 98, 100)),
      Descriptor(Sig(0, 0, 50, 50, 100, 100)),
      Descriptor(Sig(50, 50, 50, 50, 100, 200)) }

InitFit ==
    /\ image_polygons \in SeqsUpTo(DescriptorFamily, MaxPolys)
    /\ star_polygons \in SeqsUpTo(DescriptorFamily, MaxPolys)
    /\ pc = "fit"
    /\ fit_i = 1
    /\ fit_j = 1
    /\ n = 0
    /\ reported = <<>>
    /\ star_list = <<>>
    /\ id_a = 0
    /\ id_b = 0
    /\ star_vec = <<>>
    /\ dist_vec = <<>>
    /\ center = NoCenter
    /\ polygons = <<>>
    /\ result = "pending"
    /\ image_stars = <<>>
    /\ scale_app = 1
    /\ probe = <<>>
    /\ main_result = NotRun
    /\ rows = <<>>

NextFit ==
    \/ FitSimilar
    \/ FitDifferent
    \/ FitReturn

SpecFit == InitFit /\ [][NextFit]_vars

---------------------------------------------------------------------------
(* The pipeline: descriptors of a star list and of its projection at a     *)
(* scale, then find_fit on the two descriptor lists                        *)

ScaleSet == {2, 3, 4}

PixelSet ==
    {ImageStar(0, 0), ImageStar(1, 0), ImageStar(0, 1), ImageStar(1, 1),
     ImageStar(10, 10)}

\* the same points taken as catalogue stars
AsStars(list) == [i \in 1..Len(list) |-> Star(list[i].pixel_x, list[i].pixel_y)]

InitScale ==
    /\ image_stars \in
           UNION {[1..k -> PixelSet] : k \in (POLYGON_EDGES - 1)..MaxPixels}
    /\ star_list = AsStars(image_stars)
    /\ scale_app \in ScaleSet
    /\ pc = "build"
    /\ id_a = 0
    /\ id_b = 0
    /\ star_vec = <<>>
    /\ dist_vec = <<>>
    /\ center = NoCenter
    /\ polygons = <<>>
    /\ result = "pending"
    /\ image_polygons = <<>>
    /\ star_polygons = <<>>
    /\ fit_i = 1
    /\ fit_j = 1
    /\ n = 0
    /\ reported = <<>>
    /\ probe = <<>>
    /\ main_result = NotRun
    /\ rows = <<>>

\* both calls of find_polygons return Some list
BuildPolygons ==
    /\ pc = "build"
    /\ LET cat == find_polygons(star_list)
           img == find_polygons(image_star_to_polygon(image_stars, scale_app))
       IN  /\ cat.some /\ img.some
           /\ star_polygons' = cat.polygons
           /\ image_polygons' = img.polygons
    /\ result' = "Some"
    /\ pc' = "match"
    /\ UNCHANGED <<star_list, id_a, id_b, star_vec, dist_vec, center, polygons>>
    /\ UNCHANGED <<fit_i, fit_j, n, reported, otherVars>>

\* find_polygons returns None: there is nothing to match
BuildNone ==
    /\ pc = "build"
    /\ ~find_polygons(star_list).some
    /\ result' = "None"
    /\ pc' = "done"
    /\ UNCHANGED <<star_list, id_a, id_b, star_vec, dist_vec, center, polygons>>
    /\ UNCHANGED <<fitVars, otherVars>>

\* the whole of find_fit on the two descriptor lists
MatchAll ==
    /\ pc = "match"
    /\ LET fit == find_fit(image_polygons, star_polygons)
       IN  /\ n' = fit.n
           /\ reported' = fit.reported
    /\ pc' = "fit_done"
    /\ UNCHANGED <<image_polygons, star_polygons, fit_i, fit_j>>
    /\ UNCHANGED <<polyVars, otherVars>>

NextScale ==
    \/ BuildPolygons
    \/ BuildNone
    \/ MatchAll

SpecScale == InitScale /\ [][NextScale]_vars

---------------------------------------------------------------------------
(* star_distance_rad on a pair of stars and on the pair translated *)

Offsets == (0 - MaxOffset)..MaxOffset

Shift(star, t) == Star(star.ra_rad + t, star.dec_rad + t)

InitDist ==
    /\ \E a \in PointSet, b \in PointSet, t \in Offsets :
           probe = [a |-> a, b |-> b, t |-> t, d |-> 0, d_t |-> 0]
    /\ pc = "probe"
    /\ star_list = <<>>
    /\ id_a = 0
    /\ id_b = 0
    /\ star_vec = <<>>
    /\ dist_vec = <<>>
    /\ center = NoCenter
    /\ polygons = <<>>
    /\ result = "pending"
    /\ image_polygons = <<>>
    /\ star_polygons = <<>>
    /\ fit_i = 1
    /\ fit_j = 1
    /\ n = 0
    /\ reported = <<>>
    /\ image_stars = <<>>
    /\ scale_app = 1
    /\ main_result = NotRun
    /\ rows = <<>>

\* the distance of the two stars
Measure ==
    /\ pc = "probe"
    /\ probe' = [probe EXCEPT !.d = star_distance_rad(probe.a, probe.b)]
    /\ pc' = "measured"
    /\ UNCHANGED <<polyVars, fitVars, image_stars, scale_app, main_result, rows>>

\* the distance of the two stars, both moved by the offset
MeasureTranslated ==
    /\ pc = "measured"
    /\ probe' = [probe EXCEPT !.d_t = star_distance_rad(Shift(probe.a, probe.t),
                                                        Shift(probe.b, probe.t))]
    /\ pc' = "translated"
    /\ UNCHANGED <<polyVars, fitVars, image_stars, scale_app, main_result, rows>>

NextDist ==
    \/ Measure
    \/ MeasureTranslated

SpecDist == InitDist /\ [][NextDist]_vars

---------------------------------------------------------------------------
(* Properties of find_polygons, checked under Spec *)

IsOne(x) == FEq(x, Frac(1, 1))
\* a <= b on f64
FLe(a, b) == ~IsNaN(a) /\ ~IsNaN(b) /\ a.n * b.d <= b.n * a.d

\* C1: every emitted descriptor has exactly POLYGON_EDGES vertex indices,
\* pairwise distinct, each a valid index of the star list, the first one
\* the anchor (star_index), and a length_list of C(4,2) = 6 entries.
C1_DescriptorShape ==
    \A h \in 1..Len(polygons) :
        LET pol == polygons[h]
        IN  /\ Len(pol.star_list) = POLYGON_EDGES
            /\ \A p, q \in 1..Len(pol.star_list) :
                   p # q => pol.star_list[p] # pol.star_list[q]
            /\ \A p \in 1..Len(pol.star_list) :
                   pol.star_list[p] \in 0..(Len(star_list) - 1)
            /\ pol.star_list[1] = pol.star_index
            /\ Len(pol.length_list) = 6
            /\ Len(pol.length_list)
                   = (POLYGON_EDGES * (POLYGON_EDGES - 1)) \div 2

\* C1 witness: a run over five stars has finished with several descriptors
C1_Witness ==
    /\ pc = "done"
    /\ Len(star_list) = 5
    /\ Len(polygons) >= 3

\* C2 (as claimed): every emitted descriptor has a non-decreasing signature
\* whose last entry equals 1.0, coincident points included.
C2_SortedEndsAtOne ==
    \A h \in 1..Len(polygons) :
        LET sig == polygons[h].length_list
        IN  /\ \A p \in 1..(Len(sig) - 1) : FLe(sig[p], sig[p + 1])
            /\ IsOne(sig[Len(sig)])

\* C3: with fewer than POLYGON_EDGES stars find_polygons returns None
\* before any anchor is processed; otherwise it returns Some list of at
\* least one and at most N descriptors.
C3_NoneOrSome ==
    /\ (pc = "done" /\ Len(star_list) < POLYGON_EDGES) =>
            /\ result = "None"
            /\ polygons = <<>>
            /\ star_vec = <<>> /\ dist_vec = <<>> /\ id_a = 0 /\ id_b = 0
    /\ (pc = "done" /\ Len(star_list) >= POLYGON_EDGES) =>
            /\ result = "Some"
            /\ Len(polygons) >= 1
            /\ Len(polygons) <= Len(star_list)
    /\ result = "None" => Len(star_list) < POLYGON_EDGES

\* C3 witness: both outcomes are reached; this one is the None outcome of a
\* list of three stars (the Some outcome is C1_Witness)
C3_Witness ==
    /\ pc = "done"
    /\ Len(star_list) = POLYGON_EDGES - 1
    /\ result = "None"

\* (distance from the anchor, index) of star j, ordered lexicographically
Nearer(list, a, j, k) ==
    LET dj == star_distance_rad(list[a + 1], list[j + 1])
        dk == star_distance_rad(list[a + 1], list[k + 1])
    IN  dj < dk \/ (dj = dk /\ j < k)

\* the scan of every star of the list with a window of `slots` slots
RECURSIVE ScanWith(_, _, _, _)
ScanWith(list, a, b, slots) ==
    IF b = 0
    THEN [star |-> [p \in 1..slots |-> 0], dist |-> [p \in 1..slots |-> F64_MAX]]
    ELSE LET w == ScanWith(list, a, b - 1, slots)
         IN  ScanOne(list, a, b - 1, w)

TheScenario ==
    <<Star(0, 0), Star(1, 0), Star(0, 1), Star(1, 1), Star(10, 10)>>

\* C10: after the scan and the insertion of the anchor, vertices 1..K-1 are
\* the K-1 other stars nearest to the anchor, nearest first, stars at equal
\* distance in list order; the window of K slots gives what a window of
\* K-1 slots gives; in the scenario anchor 0 selects stars 1, 2 and 3.
C10_NearestNeighbours ==
    pc = "exists" =>
        LET others == (0..(Len(star_list) - 1)) \ {id_a}
            chosen == {star_vec[p] : p \in 2..POLYGON_EDGES}
            small == ScanWith(star_list, id_a, Len(star_list), POLYGON_EDGES - 1)
        IN  /\ star_vec[1] = id_a /\ dist_vec[1] = 0
            /\ chosen \subseteq others
            /\ Cardinality(chosen) = POLYGON_EDGES - 1
            /\ \A p \in 2..POLYGON_EDGES :
                   dist_vec[p] = star_distance_rad(star_list[id_a + 1],
                                                   star_list[star_vec[p] + 1])
            /\ \A p \in 2..(POLYGON_EDGES - 1) :
                   Nearer(star_list, id_a, star_vec[p], star_vec[p + 1])
            /\ \A j \in others \ chosen :
                   Nearer(star_list, id_a, star_vec[POLYGON_EDGES], j)
            /\ \A p \in 2..POLYGON_EDGES :
                   /\ star_vec[p] = small.star[p - 1]
                   /\ dist_vec[p] = small.dist[p - 1]
            /\ (star_list = TheScenario /\ id_a = 0) => chosen = {1, 2, 3}

\* C10 witness: the scenario at anchor 0, where stars 1 and 2 are at equal
\* distance and star 4 was dropped from the window
C10_Witness ==
    /\ pc = "exists"
    /\ star_list = TheScenario
    /\ id_a = 0
    /\ star_vec = <<0, 1, 2, 3>>
    /\ dist_vec[2] = dist_vec[3]

---------------------------------------------------------------------------
(* Properties of find_fit, checked under SpecFit *)

\* the pair (i, j) has been compared
Processed(i, j) ==
    \/ pc = "fit_done"
    \/ i < fit_i
    \/ (i = fit_i /\ j < fit_j)

Reported(i, j) == \E k \in 1..Len(reported) : reported[k] = <<i, j>>

AllPairs == (1..Len(image_polygons)) \X (1..Len(star_polygons))

FMin(a, b) == IF FLt(b, a) THEN b ELSE a
FMax(a, b) == IF FLt(a, b) THEN b ELSE a
\* min(a, b) / max(a, b)
MinOverMax(a, b) == FDiv(FMin(a, b), FMax(a, b))

\* the edge positions find_fit compares, 1-based: 0 .. C(K,2)-2 in the code
Compared == 1..(polygon_connections(POLYGON_EDGES) - 1)

\* no compared edge has min/max below 0.99
WithinTolerance(image_pol, star_pol) ==
    \A p \in Compared :
        ~FLt(MinOverMax(image_pol.length_list[p], star_pol.length_list[p]),
             Frac(99, 100))

\* C4: a compared pair is reported if and only if at every edge position
\* 0..C(K,2)-2 min/max is not below 0.99; a ratio of exactly 0.99 passes
\* and the last position has no influence.
C4_MatchIffWithinTolerance ==
    \A pair \in AllPairs :
        Processed(pair[1], pair[2]) =>
            (Reported(pair[1], pair[2])
                <=> WithinTolerance(image_polygons[pair[1]], star_polygons[pair[2]]))

\* C4 witness: a reported pair with a ratio of exactly 0.99 at a compared
\* position, and a reported pair whose last entries differ by more than 1%
C4_Witness ==
    /\ pc = "fit_done"
    /\ \E pair \in AllPairs :
           /\ Reported(pair[1], pair[2])
           /\ \E p \in Compared :
                  FEq(MinOverMax(image_polygons[pair[1]].length_list[p],
                                 star_polygons[pair[2]].length_list[p]),
                      Frac(99, 100))
    /\ \E pair \in AllPairs :
           /\ Reported(pair[1], pair[2])
           /\ FLt(MinOverMax(image_polygons[pair[1]].length_list[6],
                             star_polygons[pair[2]].length_list[6]),
                  Frac(99, 100))

IsZero(x) == FEq(x, Frac(0, 1))

\* position p of the pair is reached by the loop and its denominator is zero
DegenerateAt(image_pol, star_pol, p) ==
    /\ IsZero(FMax(image_pol.length_list[p], star_pol.length_list[p]))
    /\ \A q \in 1..(p - 1) :
           ~FLt(MinOverMax(image_pol.length_list[q], star_pol.length_list[q]),
                Frac(99, 100))

\* C5 (as claimed): a pair with a zero denominator at a compared edge
\* position is not reported as a match.
C5_ZeroDenominatorNotSimilar ==
    \A pair \in AllPairs :
        (/\ Processed(pair[1], pair[2])
         /\ \E p \in Compared :
                DegenerateAt(image_polygons[pair[1]], star_polygons[pair[2]], p))
            => ~Reported(pair[1], pair[2])

\* C6: every pair of the cross product is compared once and every similar
\* pair is reported once: n is the number of similar pairs, and an image
\* descriptor similar to m catalogue descriptors is reported m times.
C6_AllSimilarPairsOnce ==
    /\ n = Len(reported)
    /\ \A k, l \in 1..Len(reported) : k # l => reported[k] # reported[l]
    /\ \A pair \in AllPairs :
           Processed(pair[1], pair[2]) =>
               (Reported(pair[1], pair[2])
                    <=> Similar(image_polygons[pair[1]], star_polygons[pair[2]]))
    /\ \A k \in 1..Len(reported) :
           reported[k] \in AllPairs /\ Processed(reported[k][1], reported[k][2])
    /\ pc = "fit_done" =>
           /\ n = Cardinality({pair \in AllPairs :
                     Similar(image_polygons[pair[1]], star_polygons[pair[2]])})
           /\ \A i \in 1..Len(image_polygons) :
                  Cardinality({k \in 1..Len(reported) : reported[k][1] = i})
                      = Cardinality({j \in 1..Len(star_polygons) :
                            Similar(image_polygons[i], star_polygons[j])})

\* C6 witness: one image descriptor reported with two catalogue descriptors
\* that differ from each other
C6_Witness ==
    /\ pc = "fit_done"
    /\ n >= 2
    /\ Len(star_polygons) = 2
    /\ star_polygons[1] # star_polygons[2]
    /\ Reported(1, 1) /\ Reported(1, 2)

\* C7: the pair (A as image, B as catalogue) is reported if and only if the
\* pair (B as image, A as catalogue) is.
C7_Symmetric ==
    \A pair \in AllPairs, back \in AllPairs :
        (/\ Processed(pair[1], pair[2])
         /\ Processed(back[1], back[2])
         /\ image_polygons[pair[1]].length_list = star_polygons[back[2]].length_list
         /\ star_polygons[pair[2]].length_list = image_polygons[back[1]].length_list)
            => (Reported(pair[1], pair[2]) <=> Reported(back[1], back[2]))

\* C7 witness: two different descriptors compared in both role assignments,
\* reported in both; and two others reported in neither
C7_Witness ==
    /\ pc = "fit_done"
    /\ Len(image_polygons) = 2
    /\ image_polygons[1] # image_polygons[2]
    /\ star_polygons = <<image_polygons[2], image_polygons[1]>>
    /\ Reported(1, 1) /\ Reported(2, 2)

---------------------------------------------------------------------------
(* The pipeline property, checked under SpecScale *)

---------------------------------------------------------------------------
(* Properties of star_distance_rad, checked under SpecDist *)

---------------------------------------------------------------------------
(* Deduplication by centre in find_polygons, checked under Spec *)

\* the centre of the polygon anchored at star a
AnchorCenter(list, a) ==
    LET w == ScanAll(list, a, Len(list))
    IN  Center(list, WithAnchor(a, w).star)

SameCenter(pol, c) ==
    FEq(pol.center_ra_rad, c.ra) /\ FEq(pol.center_dec_rad, c.dec)

Emitted(a) == \E h \in 1..Len(polygons) : polygons[h].star_index = a

\* what holds of the stored descriptors in every state
C11_Stored ==
    /\ \A h, k \in 1..Len(polygons) :
           h < k => polygons[h].star_index < polygons[k].star_index
    /\ \A h, k \in 1..Len(polygons) :
           h # k => ~SameCenter(polygons[h],
                                [ra |-> polygons[k].center_ra_rad,
                                 dec |-> polygons[k].center_dec_rad])
    /\ \A h \in 1..Len(polygons) : polygons[h].star_index <= id_a
    /\ pc = "done" /\ result = "Some" =>
           LET anchors == 0..(Len(star_list) - 1)
               ctr == [a \in anchors |-> AnchorCenter(star_list, a)]
           IN  /\ \A a \in anchors :
                      Emitted(a) <=>
                          ~\E h \in 1..Len(polygons) :
                               /\ polygons[h].star_index < a
                               /\ SameCenter(polygons[h], ctr[a])
               /\ \A a \in anchors :
                      Emitted(a) <=>
                          ~\E b \in anchors :
                               /\ b < a
                               /\ FEq(ctr[b].ra, ctr[a].ra)
                               /\ FEq(ctr[b].dec, ctr[a].dec)

\* a step stores the descriptor of the current anchor exactly when no
\* stored descriptor has its centre, and leaves the stored ones as they are
C11_Step ==
    /\ Len(polygons') >= Len(polygons)
    /\ SubSeq(polygons', 1, Len(polygons)) = polygons
    /\ pc = "exists" =>
           IF \E h \in 1..Len(polygons) : SameCenter(polygons[h], center)
           THEN polygons' = polygons
           ELSE /\ Len(polygons') = Len(polygons) + 1
                /\ polygons'[Len(polygons')].star_index = id_a
                /\ polygons'[Len(polygons')].star_list = star_vec
    /\ pc # "exists" => polygons' = polygons
    /\ id_a' >= id_a

\* C11: anchors are processed in increasing order; the descriptor of anchor
\* i is stored if and only if no descriptor stored for an earlier anchor has
\* the same centre; no two stored descriptors share a centre, they are in
\* increasing anchor order, never removed or changed, and of the anchors
\* sharing a centre only the first is stored.
C11_DedupByCenter == []C11_Stored /\ [][C11_Step]_vars

\* C11 witness: the scenario has finished; anchors 1, 2 and 3 have the
\* centre of anchor 0 and were skipped, anchor 4 was stored after them
C11_Witness ==
    /\ pc = "done"
    /\ star_list = TheScenario
    /\ Len(polygons) = 2
    /\ Emitted(0) /\ ~Emitted(1) /\ ~Emitted(2) /\ ~Emitted(3) /\ Emitted(4)

---------------------------------------------------------------------------
(* main.rs: its own copy of find_polygons.  Lines 105-190 and 192-205 are  *)
(* those of polygon.rs with f32 for f64, and so are polygon_connections    *)
(* and star_distance_rad (main.rs:19-25, 54-57): the operators above model *)
(* them.  Line 191 is the difference.                                      *)

\* "Normalize the length of the connections by the longest length", then
\* `length_vec[0] = longest_length`; a length l counts l / SqrtRes
main_Normalize(lvec) ==
    LET longest_length == lvec[Len(lvec)]
    IN  [i \in 1..Len(lvec) |->
            IF i = 1 THEN Frac(longest_length, SqrtRes)
            ELSE FDiv(Frac(lvec[i], 1), Frac(longest_length, 1))]

main_MakePolygon(list, a, svec, c) ==
    [star_index |-> a,
     star_list |-> svec,
     length_list |-> main_Normalize(SortAsc(Lengths(list, svec))),
     center_ra_rad |-> c.ra,
     center_dec_rad |-> c.dec]

RECURSIVE main_PolygonsFrom(_, _, _)
main_PolygonsFrom(list, a, polys) ==
    IF a >= Len(list) THEN polys
    ELSE LET w == WithAnchor(a, ScanAll(list, a, Len(list)))
             c == Center(list, w.star)
         IN  IF PolygonExists(polys, c)
             THEN main_PolygonsFrom(list, a + 1, polys)
             ELSE main_PolygonsFrom(list, a + 1,
                      Append(polys, main_MakePolygon(list, a, w.star, c)))

main_find_polygons(list) ==
    IF NotEnoughStars(list)
    THEN [some |-> FALSE, polygons |-> <<>>]
    ELSE [some |-> TRUE, polygons |-> main_PolygonsFrom(list, 0, <<>>)]

InitMain ==
    /\ star_list \in SeqsUpTo(PointSet, MaxCatalog)
    /\ pc = "main"
    /\ id_a = 0
    /\ id_b = 0
    /\ star_vec = <<>>
    /\ dist_vec = <<>>
    /\ center = NoCenter
    /\ polygons = <<>>
    /\ result = "pending"
    /\ image_polygons = <<>>
    /\ star_polygons = <<>>
    /\ fit_i = 1
    /\ fit_j = 1
    /\ n = 0
    /\ reported = <<>>
    /\ image_stars = <<>>
    /\ scale_app = 1
    /\ probe = <<>>
    /\ main_result = NotRun
    /\ rows = <<>>

\* main: find_polygons returned Some(polygons), which are printed
MainSome ==
    /\ pc = "main"
    /\ main_find_polygons(star_list).some
    /\ main_result' = main_find_polygons(star_list)
    /\ pc' = "lib"
    /\ UNCHANGED <<polyVars, fitVars, image_stars, scale_app, probe, rows>>

\* main: find_polygons returned None
MainNone ==
    /\ pc = "main"
    /\ ~main_find_polygons(star_list).some
    /\ main_result' = main_find_polygons(star_list)
    /\ pc' = "lib"
    /\ UNCHANGED <<polyVars, fitVars, image_stars, scale_app, probe, rows>>

\* polygon.rs find_polygons on the same star list
LibPolygons ==
    /\ pc = "lib"
    /\ LET r == find_polygons(star_list)
       IN  /\ polygons' = r.polygons
           /\ result' = IF r.some THEN "Some" ELSE "None"
    /\ pc' = "compared"
    /\ UNCHANGED <<star_list, id_a, id_b, star_vec, dist_vec, center>>
    /\ UNCHANGED <<fitVars, otherVars>>

NextMain ==
    \/ MainSome
    \/ MainNone
    \/ LibPolygons

SpecMain == InitMain /\ [][NextMain]_vars

\* the same f64 value, NaN taken as equal to NaN
SameValue(x, y) == FEq(x, y) \/ (IsNaN(x) /\ IsNaN(y))

\* C12 (as claimed): on the same star list the find_polygons of main.rs and
\* the find_polygons of polygon.rs return the same sequence of descriptors:
\* the same anchors, the same vertex indices and the same signatures.
C12_CopiesEquivalent ==
    pc = "compared" =>
        /\ main_result.some <=> (result = "Some")
        /\ Len(main_result.polygons) = Len(polygons)
        /\ \A h \in 1..Len(polygons) :
               /\ main_result.polygons[h].star_index = polygons[h].star_index
               /\ main_result.polygons[h].star_list = polygons[h].star_list
               /\ \A p \in 1..Len(polygons[h].length_list) :
                      SameValue(main_result.polygons[h].length_list[p],
                                polygons[h].length_list[p])

---------------------------------------------------------------------------
(* sextractor.rs: read_image_stars_from_file.  A record is the triple of   *)
(* the numbers its three fields parse to.                                  *)

\* the star of a record: fields 0, 1 and 2 parsed
RecordStar(record) ==
    [pixel_x |-> record[1], pixel_y |-> record[2], magnitude |-> record[3]]

\* the comparator of the sort: b.magnitude.partial_cmp(&a.magnitude) is
\* Less, so that a is placed before b
Before(a, b) == b.magnitude < a.magnitude

\* x placed into a sorted list, behind the elements it is not Before
RECURSIVE InsertStar(_, _)
InsertStar(sorted, x) ==
    IF sorted = <<>> THEN <<x>>
    ELSE IF Before(x, Head(sorted)) THEN <<x>> \o sorted
    ELSE <<Head(sorted)>> \o InsertStar(Tail(sorted), x)

\* star_list.sort_by(..): a stable sort
RECURSIVE SortByMagnitude(_)
SortByMagnitude(list) ==
    IF list = <<>> THEN <<>>
    ELSE LET front == SortByMagnitude(SubSeq(list, 1, Len(list) - 1))
         IN  InsertStar(front, list[Len(list)])

RecordSet == {<<x, 0, m>> : x \in 0..1, m \in 1..MaxMagnitude}

InitRead ==
    /\ rows \in SeqsUpTo(RecordSet, MaxRows)
    /\ image_stars = <<>>
    /\ pc = "read"
    /\ star_list = <<>>
    /\ id_a = 0
    /\ id_b = 0
    /\ star_vec = <<>>
    /\ dist_vec = <<>>
    /\ center = NoCenter
    /\ polygons = <<>>
    /\ result = "pending"
    /\ image_polygons = <<>>
    /\ star_polygons = <<>>
    /\ fit_i = 1
    /\ fit_j = 1
    /\ n = 0
    /\ reported = <<>>
    /\ scale_app = 1
    /\ probe = <<>>
    /\ main_result = NotRun

\* one record: the list is sorted, then the star of the record is pushed
ReadRow ==
    /\ pc = "read"
    /\ rows # <<>>
    /\ image_stars' = Append(SortByMagnitude(image_stars), RecordStar(Head(rows)))
    /\ rows' = Tail(rows)
    /\ UNCHANGED <<pc, polyVars, fitVars, scale_app, probe, main_result>>

\* no record is left: Ok(star_list)
ReadReturn ==
    /\ pc = "read"
    /\ rows = <<>>
    /\ pc' = "read_done"
    /\ UNCHANGED <<polyVars, fitVars, otherVars>>

NextRead ==
    \/ ReadRow
    \/ ReadReturn

SpecRead == InitRead /\ [][NextRead]_vars

\* C13 (as claimed): the returned list is sorted by magnitude: every
\* adjacent pair is in the order of the comparator, magnitude non-increasing.
C13_ReturnedSorted ==
    pc = "read_done" =>
        \A k \in 1..(Len(image_stars) - 1) :
            image_stars[k].magnitude >= image_stars[k + 1].magnitude

=============================================================================
